---- MODULE Spec2Model ----
(***************************************************************************)
(* phantomdb: the relational store of MRI phantom scans (models.py), the   *)
(* ingestion pass that fills it (app.py: init), the consolidated status    *)
(* view "log" (models.py: LogView) and the reconciliation of that view     *)
(* with the published wiki table (confluence.py: Log.merge_logs).          *)
(*                                                                         *)
(* Cells of a table are strings.  SQLite keeps a Date as ISO text and a    *)
(* Boolean as 1/0; NULL (None, NaN, NaT) is the value NULL below, which    *)
(* differs from the empty string "".  An identifier is a string, and       *)
(* Chars(id) is the sequence of its characters.                            *)
(***************************************************************************)
EXTENDS Integers, Sequences, FiniteSets, TLC

VARIABLES
    file,       \* the path handed to DICOM.from_path: [stem, ctime, archive]
    siteRes,    \* outcome of DICOM._extract_site(file)
    dateRes,    \* outcome of DICOM._extract_phantom_date(file)
    scanRes,    \* outcome of DICOM.from_path(file)
    store,      \* the committed content of the database file
    session,    \* the ORM session of a running init(): rows added, not committed
    identity,   \* the identity map of the session: the <<class, id>> it holds
    unit,       \* the unit of work of the session: [flushed, replaced, cleared]
    pc,         \* position of init(): "idle", or the loop it is in
    before,     \* the committed content at the start of the open transaction
    outcome,    \* how the last init() ended: [state, error, added]
    page,       \* the table of the wiki page: [columns, rows]
    exported,   \* write_and_post: oldlog, the view log read from the database
    fetched,    \* Log.oldlog: the columns id and notes read from the page
    newlog,     \* write_and_post: newlog, the table it writes
    wp,         \* position of write_and_post: [at, post]
    last        \* the last call of merge_logs: [view, old, result]

vars == <<file, siteRes, dateRes, scanRes, store, session, identity, unit, pc,
          before, outcome, page, exported, fetched, newlog, wp, last>>

NULL == "<NULL>"

----------------------------------------------------------------------------
(* Bounds *)

MaxStemLen == 3     \* longest file stem given to _extract_site
MaxEntries == 2     \* most entries in an archive's file list
MaxRows == 4        \* most rows in the database, over all its tables
MaxPageRows == 2    \* most rows of a table that is posted to the page

----------------------------------------------------------------------------
(* Strings as character sequences *)

\* three characters beyond ASCII, written by their code points: capital I
\* with a dot above, small i without a dot, and the long s
DottedI == "{U+0130}"
DotlessI == "{U+0131}"
LongS == "{U+017F}"

\* the characters of the stems given to _extract_site: letters of the site
\* codes, a letter of none, and the three characters that share a case with
\* i or s
Alphabet == {"n", "S", "u", "i", "Q", DottedI, DotlessI, LongS}

\* the case folding of re.IGNORECASE on a str pattern, on the letters of the
\* site pattern: U+0130 and U+0131 match i, U+017F matches s
Fold(c) ==
    CASE c = "N" -> "n" [] c = "S" -> "s" [] c = "W" -> "w" [] c = "H" -> "h"
      [] c = "U" -> "u" [] c = "I" -> "i" [] c = "C" -> "c" [] c = "M" -> "m"
      [] c = DottedI -> "i" [] c = DotlessI -> "i" [] c = LongS -> "s"
      [] OTHER -> c

\* the case folding of the SQLite operator LIKE: the letters of ASCII alone
Lower(c) ==
    CASE c = "N" -> "n" [] c = "S" -> "s" [] c = "W" -> "w" [] c = "H" -> "h"
      [] c = "U" -> "u" [] c = "I" -> "i" [] c = "C" -> "c" [] c = "M" -> "m"
      [] c = "Q" -> "q" [] c = "B" -> "b" [] c = "T" -> "t" [] c = "D" -> "d"
      [] OTHER -> c

\* str.upper(): U+0131 becomes I and U+017F becomes S, U+0130 stays
Upper(c) ==
    CASE c = DotlessI -> "I" [] c = LongS -> "S"
      [] c = "n" -> "N" [] c = "s" -> "S" [] c = "w" -> "W" [] c = "h" -> "H"
      [] c = "u" -> "U" [] c = "i" -> "I" [] c = "c" -> "C" [] c = "m" -> "M"
      [] c = "q" -> "Q" [] c = "b" -> "B" [] c = "t" -> "T" [] c = "d" -> "D"
      [] OTHER -> c

\* the characters of the identifiers and keywords of the model
Chars(id) ==
    CASE id = "NS1"   -> <<"N", "S", "1">>
      [] id = "uc2"   -> <<"u", "c", "2">>
      [] id = "QC3"   -> <<"Q", "C", "3">>
      [] id = "b1000" -> <<"b", "1", "0", "0", "0">>
      [] id = "b2000" -> <<"b", "2", "0", "0", "0">>
      [] id = "B2000" -> <<"B", "2", "0", "0", "0">>
      [] id = "dwi"   -> <<"d", "w", "i">>
      [] id = "t1"    -> <<"t", "1">>
      [] id = "t2"    -> <<"t", "2">>
      [] id = "bd1"   -> <<"b", "d", "1">>
      [] id = "bd2"   -> <<"b", "d", "2">>

\* the dates of the model, as ISO text, in their order
Days == <<"2021-01-01", "2021-01-02">>

SeqsUpTo(S, n) == UNION {[1..k -> S] : k \in 0..n}

\* the string with the characters s
RECURSIVE Join(_)
Join(s) == IF s = <<>> THEN "" ELSE Head(s) \o Join(Tail(s))

----------------------------------------------------------------------------
(* Outcomes of a call: a returned value or a raised exception *)

Pending == [kind |-> "pending"]
Return(v) == [kind |-> "return", value |-> v]
Raise(e) == [kind |-> "raise", error |-> e]

\* how a run of init() stands: its state, the exception that ended it, and
\* the number of rows it had added to its session when it ended
Idle == [state |-> "idle", error |-> "", added |-> 0]
Running == [state |-> "running", error |-> "", added |-> 0]
Committed(n) == [state |-> "committed", error |-> "", added |-> n]
Failed(e, n) == [state |-> "failed", error |-> e, added |-> n]

----------------------------------------------------------------------------
(* models.py: DICOM._extract_site *)

\* the alternatives of the pattern r"(ns|ws|sh|ui|uc|um)", in its order
SitePattern == <<"ns", "ws", "sh", "ui", "uc", "um">>

\* the two-letter codes, as _extract_site returns them
SiteCodes == {"NS", "WS", "SH", "UI", "UC", "UM"}

\* the pattern matches at position i of s, ignoring case
MatchesAt(s, i) ==
    /\ i + 1 <= Len(s)
    /\ \E k \in 1..Len(SitePattern) :
           SitePattern[k] = Fold(s[i]) \o Fold(s[i + 1])

\* re.search: the leftmost position where the pattern matches, 0 for None
Search(s) ==
    IF \E i \in 1..Len(s) : MatchesAt(s, i)
    THEN CHOOSE i \in 1..Len(s) :
             MatchesAt(s, i) /\ \A j \in 1..(i - 1) : ~MatchesAt(s, j)
    ELSE 0

\* re.search(...).group(0).upper(); .group on None raises AttributeError
ExtractSite(s) ==
    LET i == Search(s)
    IN  IF i = 0
        THEN Raise("AttributeError")
        ELSE Return(Upper(s[i]) \o Upper(s[i + 1]))

----------------------------------------------------------------------------
(* models.py: DICOM._extract_phantom_date *)

\* datetime.strptime(text, "%Y%m%d").date(), as the ISO text SQLite keeps
Strptime(text) ==
    CASE text = NULL       -> Raise("TypeError")
      [] text = "20210101" -> Return("2021-01-01")
      [] text = "20210102" -> Return("2021-01-02")
      [] OTHER             -> Raise("ValueError")

\* an entry of ZipFile.filelist: is_dir(), "DICOMDIR" in filename, and the
\* AcquisitionDate of the header pydicom reads from it (NULL: no such field)
Entries ==
    [is_dir : BOOLEAN, dicomdir : BOOLEAN,
     AcquisitionDate : {NULL, "20210101", "2021"}]

NotZip == [zip |-> FALSE, filelist |-> <<>>]
Zip(l) == [zip |-> TRUE, filelist |-> l]

Suitable(e) == ~e.is_dir /\ ~e.dicomdir

\* the for loop: the first suitable entry is read and the loop breaks; 0 when
\* the loop ends without reading any, which leaves `header` unbound
FirstSuitable(l) ==
    IF \E i \in 1..Len(l) : Suitable(l[i])
    THEN CHOOSE i \in 1..Len(l) :
             Suitable(l[i]) /\ \A j \in 1..(i - 1) : ~Suitable(l[j])
    ELSE 0

ExtractPhantomDate(a) ==
    IF ~a.zip
    THEN Return(NULL)
    ELSE LET i == FirstSuitable(a.filelist)
         IN  IF i = 0
             THEN Raise("UnboundLocalError")
             ELSE Strptime(a.filelist[i].AcquisitionDate)

----------------------------------------------------------------------------
(* models.py: DICOM.from_path *)

\* a path f is [stem, ctime, archive]: the characters of f.stem, the creation
\* date of the file and what zipfile finds in it
\* the keyword arguments are evaluated in the order written: id, day,
\* acquisition_day, site; the first exception ends the call
FromPath(f) ==
    LET d == ExtractPhantomDate(f.archive)
        s == ExtractSite(f.stem)
    IN  IF d.kind = "raise" THEN d
        ELSE IF s.kind = "raise" THEN s
        ELSE Return([id |-> Join(f.stem), site |-> s.value, day |-> f.ctime,
                     acquisition_day |-> d.value])

----------------------------------------------------------------------------
(* models.py: the tables.  A table is the sequence of its rows in the      *)
(* order they were inserted.                                               *)

\* the primary keys of a table
Ids(t) == [i \in 1..Len(t) |-> t[i].id]

Unique(q) == \A i, j \in 1..Len(q) : q[i] = q[j] => i = j

Concat(a, b) ==
    [dicoms |-> a.dicoms \o b.dicoms, bids |-> a.bids \o b.bids,
     t1ws |-> a.t1ws \o b.t1ws, bolds |-> a.bolds \o b.bolds,
     dwis |-> a.dwis \o b.dwis, boldslices |-> a.boldslices \o b.boldslices]

Size(a) ==
    Len(a.dicoms) + Len(a.bids) + Len(a.t1ws) + Len(a.bolds) + Len(a.dwis)
    + Len(a.boldslices)

\* a flush INSERTs the rows added to the session; the primary keys of dicoms,
\* t1ws, bolds and dwis are the file stems and must be unique, those of bids
\* and boldslices are generated
FlushFails(db, se) ==
    LET all == Concat(db, se)
    IN  \/ ~Unique(Ids(all.dicoms))
        \/ ~Unique(Ids(all.t1ws))
        \/ ~Unique(Ids(all.bolds))
        \/ ~Unique(Ids(all.dwis))

\* session.get(cls, id): the primary key of the row found, NULL for None
SessionGet(t, id) == IF \E i \in 1..Len(t) : t[i].id = id THEN id ELSE NULL

\* json.loads(f.read_text())
JsonLoads(text) == IF text = "{}" THEN Return("{}") ELSE Raise("JSONDecodeError")

\* ScanMixin.from_path: f is [stem, text, parent], parent being the stem of
\* f.absolute().parents[3]
ScanFromPath(f, db) ==
    LET m == JsonLoads(f.text)
    IN  IF m.kind = "raise" THEN m
        ELSE Return([id |-> Join(f.stem), meta |-> m.value,
                     dicom_id |-> SessionGet(db.dicoms, Join(f.parent))])

\* BIDS.from_path: f is [stem, ctime, validation]; validation tells whether the
\* sibling bids_validation directory is missing, holds a file *out, or holds none
\* (the row alone: what cls(dicom=...) does to the row the Scan held before is
\* Replaced, below)
BIDSFromPath(f, db, pk) ==
    LET valid == CASE f.validation = "missing" -> NULL
                   [] f.validation = "out"     -> "1"
                   [] OTHER                    -> "0"
    IN  [id |-> pk, dicom_id |-> SessionGet(db.dicoms, Join(f.stem)),
         day |-> f.ctime, valid |-> valid]

\* BOLDSlice(...): f is [parent, slice, signal, signal_p2p, snr, ghost], one row of
\* a table.csv, parent being the stem of qa.absolute().parents[0]
BOLDSliceRow(f, db, pk) ==
    [id |-> pk, slice |-> f.slice, signal |-> f.signal,
     signal_p2p |-> f.signal_p2p, snr |-> f.snr, ghost |-> f.ghost,
     bold_id |-> SessionGet(db.bolds, Join(f.parent))]

----------------------------------------------------------------------------
(* models.py: the views b1000, b2000 and log *)

\* s contains p, ignoring the case of letters: what the SQLite operator
\* s LIKE '%p%' decides
Like(s, p) ==
    \E i \in 1..(Len(s) - Len(p) + 1) :
        \A k \in 1..Len(p) : Lower(s[i + k - 1]) = Lower(p[k])

RECURSIVE TagView(_, _, _)
TagView(dwis, keyword, column) ==
    IF dwis = <<>> THEN <<>>
    ELSE LET r == Head(dwis)
             hit == Like(Chars(r.id), Chars(keyword))
             row == (column :> (IF hit THEN "Y" ELSE "N"))
                    @@ [id |-> r.id, dicom_id |-> r.dicom_id]
         IN  (IF hit THEN <<row>> ELSE <<>>)
             \o TagView(Tail(dwis), keyword, column)

B1000View(db) == TagView(db.dwis, "b1000", "b1000")
B2000View(db) == TagView(db.dwis, "b2000", "b2000")

\* left JOIN t ON dicoms.id = t.dicom_id: every row of left once for each row of
\* t that matches it, and once with NULLs when none does
\* (listed here as the table has them; the order in which the database lists
\* them is open, and LogViews takes every one)
RECURSIVE LeftJoin(_, _, _, _)
LeftJoin(left, t, name, nulls) ==
    IF left = <<>> THEN <<>>
    ELSE LET l == Head(left)
             m == SelectSeq(t, LAMBDA r : r.dicom_id = l.dicoms.id)
             out == IF m = <<>>
                    THEN <<(name :> nulls) @@ l>>
                    ELSE [i \in 1..Len(m) |-> (name :> m[i]) @@ l]
         IN  out \o LeftJoin(Tail(left), t, name, nulls)

NullBids == [id |-> NULL, dicom_id |-> NULL, day |-> NULL, valid |-> NULL]
NullScan == [id |-> NULL, meta |-> NULL, dicom_id |-> NULL]
NullTag(column) == (column :> NULL) @@ [id |-> NULL, dicom_id |-> NULL]

\* the CASE of the column bids_validation
Validation(valid) ==
    CASE valid = "1" -> "Y"
      [] valid = "0" -> "N"
      [] OTHER       -> ""

\* a CASE that leaves the column blank only when valid is missing
PresenceUnlessMissing(valid, x) ==
    CASE valid = NULL                -> ""
      [] valid = "1" /\ x # NULL     -> "Y"
      [] OTHER                       -> "N"

\* a CASE that does not look at the joined row
PresenceAlways(valid, x) ==
    CASE valid = NULL \/ valid = "0" -> ""
      [] OTHER                       -> "Y"

\* the CASE of the columns T1w, b1000, b2000 and bold
Presence(valid, x) ==
    CASE valid = NULL \/ valid = "0" -> ""
      [] valid = "1" /\ x # NULL     -> "Y"
      [] OTHER                       -> "N"

\* the order of strings, for the values a sort meets
SiteOrder == <<"NS", "SH", "UC", "UI", "UM", "WS">>
Rank(order, x) ==
    IF \E i \in 1..Len(order) : order[i] = x
    THEN CHOOSE i \in 1..Len(order) : order[i] = x
    ELSE Len(order) + 1

\* a sort that keeps rows with equal keys in the order it met them: keys[i] is
\* the key of q[i], and the row at place p of the result is the one with p - 1
\* rows before it
Sort(q, keys) ==
    LET place(i) ==
            1 + Cardinality({j \in 1..Len(q) :
                                \/ keys[j] < keys[i]
                                \/ keys[j] = keys[i] /\ j < i})
    IN  [p \in 1..Len(q) |-> q[CHOOSE i \in 1..Len(q) : place(i) = p]]

\* the key of two columns: the first decides, the second breaks its ties
Key2(a, b) == a * (Len(Days) + 2) + b

\* ORDER BY dicoms.site, dicoms.day
BySiteDay(q) ==
    [i \in 1..Len(q) |->
        Key2(Rank(SiteOrder, q[i].site), Rank(Days, q[i].dicom))]

LogColumns ==
    <<"site", "date", "dicom", "bids", "bids_validation", "T1w", "b1000",
      "b2000", "bold", "id">>

\* the SELECT list of the view log, on one row of the join
LogRow(j) ==
    [site            |-> j.dicoms.site,
     date            |-> j.dicoms.acquisition_day,
     dicom           |-> j.dicoms.day,
     bids            |-> j.bids.day,
     bids_validation |-> Validation(j.bids.valid),
     T1w             |-> Presence(j.bids.valid, j.t1ws.id),
     b1000           |-> Presence(j.bids.valid, j.b1000.b1000),
     b2000           |-> Presence(j.bids.valid, j.b2000.b2000),
     bold            |-> Presence(j.bids.valid, j.bolds.id),
     id              |-> j.dicoms.id]

\* the rows of the view log, in the order of the join
LogRows(db) ==
    LET from == [i \in 1..Len(db.dicoms) |-> [dicoms |-> db.dicoms[i]]]
        j1 == LeftJoin(from, db.bids, "bids", NullBids)
        j2 == LeftJoin(j1, db.t1ws, "t1ws", NullScan)
        j3 == LeftJoin(j2, db.bolds, "bolds", NullScan)
        j4 == LeftJoin(j3, B1000View(db), "b1000", NullTag("b1000"))
        j5 == LeftJoin(j4, B2000View(db), "b2000", NullTag("b2000"))
    IN  [i \in 1..Len(j5) |-> LogRow(j5[i])]

\* the orders of the numbers 1..n: n put at each place of each order of 1..n-1
RECURSIVE Orders(_)
Orders(n) ==
    IF n = 0 THEN {<<>>}
    ELSE {[i \in 1..n |-> IF i < k THEN p[i] ELSE IF i = k THEN n ELSE p[i - 1]] :
             p \in Orders(n - 1), k \in 1..n}

\* the view log, as pd.read_sql_table may read it: SQL leaves open the order in
\* which a join lists the rows that match, and the order of rows that ORDER BY
\* does not tell apart, so every order of the rows that ORDER BY allows is one
LogViews(db) ==
    LET rows == LogRows(db)
        keys == BySiteDay(rows)
        n == Len(rows)
        sorted == {p \in Orders(n) :
                      \A i \in 1..(n - 1) : keys[p[i]] <= keys[p[i + 1]]}
    IN  {[columns |-> LogColumns, rows |-> [i \in 1..n |-> rows[p[i]]]] :
            p \in sorted}

----------------------------------------------------------------------------
(* The extraction functions on their own: a path is drawn, and each of the *)
(* three functions is applied to it.                                       *)

Archives == {NotZip} \cup {Zip(l) : l \in SeqsUpTo(Entries, MaxEntries)}

EmptyStore ==
    [dicoms |-> <<>>, bids |-> <<>>, t1ws |-> <<>>, bolds |-> <<>>,
     dwis |-> <<>>, boldslices |-> <<>>]

EmptyTable == [columns |-> <<>>, rows |-> <<>>]

\* the tables whose rows refer to another row
Children == {"bids", "t1ws", "bolds", "dwis", "boldslices"}

\* the unit of work of a session that has done nothing: flushed counts the
\* rows of each table of the session that a flush has INSERTed, replaced
\* holds, for each Scan whose DICOM.session was set since the last flush, the
\* id of the bids row it held before (0 for none), and cleared the ids of the
\* bids rows whose dicom_id a flush has set to NULL
EmptyUnit ==
    [flushed |-> [t \in Children |-> 0], replaced |-> {}, cleared |-> {}]

\* write_and_post is not running
NotPosting == [at |-> "idle", post |-> FALSE]

\* merge_logs has not been called
NoMerge == [view |-> EmptyTable, old |-> EmptyTable, result |-> EmptyTable]

ExtractUnchanged == UNCHANGED <<file, siteRes, dateRes, scanRes>>
IngestUnchanged == UNCHANGED <<session, identity, unit, pc, before, outcome>>
PublishUnchanged == UNCHANGED <<page, exported, fetched, newlog, wp, last>>

RestInit ==
    /\ store = EmptyStore
    /\ session = EmptyStore
    /\ identity = {}
    /\ unit = EmptyUnit
    /\ pc = "idle"
    /\ before = EmptyStore
    /\ outcome = Idle
    /\ page = EmptyTable
    /\ exported = EmptyTable
    /\ fetched = EmptyTable
    /\ newlog = EmptyTable
    /\ wp = NotPosting
    /\ last = NoMerge

InitExtract ==
    /\ \/ /\ file \in [stem : SeqsUpTo(Alphabet, MaxStemLen),
                        ctime : {Days[1]}, archive : {NotZip}]
       \/ /\ file \in [stem : {Chars("NS1"), Chars("QC3")},
                        ctime : {Days[1]}, archive : Archives]
    /\ siteRes = Pending
    /\ dateRes = Pending
    /\ scanRes = Pending
    /\ RestInit

CallExtractSite ==
    /\ siteRes = Pending
    /\ siteRes' = ExtractSite(file.stem)
    /\ UNCHANGED <<file, dateRes, scanRes, store>>
    /\ IngestUnchanged /\ PublishUnchanged

CallExtractPhantomDate ==
    /\ dateRes = Pending
    /\ dateRes' = ExtractPhantomDate(file.archive)
    /\ UNCHANGED <<file, siteRes, scanRes, store>>
    /\ IngestUnchanged /\ PublishUnchanged

CallFromPath ==
    /\ scanRes = Pending
    /\ scanRes' = FromPath(file)
    /\ UNCHANGED <<file, siteRes, dateRes, store>>
    /\ IngestUnchanged /\ PublishUnchanged

NextExtract == CallExtractSite \/ CallExtractPhantomDate \/ CallFromPath

SpecExtract == InitExtract /\ [][NextExtract]_vars

----------------------------------------------------------------------------
(* app.py: init.  The files under the products directory are the inputs:   *)
(* each loop of init() takes the files its glob pattern finds, in whatever *)
(* order, and adds a row for each to the session.  Nothing is written to   *)
(* the database file before session.commit().                              *)

GoodZip == Zip(<<[is_dir |-> FALSE, dicomdir |-> FALSE,
                  AcquisitionDate |-> "20210101"]>>)
IndexOnlyZip == Zip(<<[is_dir |-> FALSE, dicomdir |-> TRUE,
                       AcquisitionDate |-> NULL]>>)

\* the archives *QC*zip: one that is no zip file, one that holds a DICOM file
\* and one that holds a DICOMDIR alone; the stem QC3 names no site
DicomFiles ==
    {[stem |-> Chars("NS1"), ctime |-> Days[2], archive |-> NotZip],
     [stem |-> Chars("NS1"), ctime |-> Days[2], archive |-> IndexOnlyZip],
     [stem |-> Chars("uc2"), ctime |-> Days[1], archive |-> GoodZip],
     [stem |-> Chars("QC3"), ctime |-> Days[1], archive |-> NotZip]}

BidsDirs ==
    {[stem |-> Chars(id), ctime |-> Days[2], validation |-> v] :
        id \in {"NS1", "uc2"}, v \in {"missing", "out", "empty"}}

\* a sidecar file: its stem, its text, and the stem of the directory of its Scan
Sidecar(id, text, p) == [stem |-> Chars(id), text |-> text, parent |-> Chars(p)]

T1wFiles ==
    {Sidecar(id, "{}", p) : id \in {"t1", "t2"}, p \in {"NS1", "uc2"}}
    \cup {Sidecar("t1", "{", "NS1")}
BoldFiles == {Sidecar("bd1", "{}", p) : p \in {"NS1", "uc2"}}
DwiFiles ==
    {Sidecar("b1000", "{}", "NS1"), Sidecar("b1000", "{}", "uc2"),
     Sidecar("B2000", "{}", "NS1"), Sidecar("dwi", "{}", "uc2")}

QaRows ==
    {[parent |-> Chars("bd1"), slice |-> "0", signal |-> "1.0",
      signal_p2p |-> "1.0", snr |-> NULL, ghost |-> "1.0"]}

Loops == <<"dicoms", "bids", "t1w", "bold", "dwi", "qa">>

LoopIndex(l) == CHOOSE i \in 1..Len(Loops) : Loops[i] = l

\* a session that writes each flush through to the database file
RollbackKeepsFlushed(db, se) == Concat(db, se)

\* the database after Session.__exit__ closes a session that did not commit:
\* the transaction is rolled back
Rollback(db, se) == db

\* the table bids with the dicom_id of the rows in ids set to NULL
Clear(bids, ids) ==
    [i \in 1..Len(bids) |->
        IF bids[i].id \in ids THEN [bids[i] EXCEPT !.dicom_id = NULL]
        ELSE bids[i]]

\* a flush: the rows added are INSERTed, and every bids row that a Scan held
\* before DICOM.session was set to another has its dicom_id set to NULL
Flush(u, se) ==
    [flushed |-> [t \in Children |-> Len(se[t])],
     replaced |-> {},
     cleared |-> u.cleared \cup ({m.old : m \in u.replaced} \ {0})]

\* the database after session.commit(), which flushes first
Commit(db, se, u) ==
    LET all == Concat(db, se)
    IN  [all EXCEPT !.bids = Clear(@, Flush(u, se).cleared)]

\* what the session sees: the committed rows and its own
Seen == Concat(store, session)

Room == Size(store) + Size(session) < MaxRows

\* the rows a flush makes persistent, among the classes session.get asks for
Persistent(se) ==
    {<<"DICOM", se.dicoms[i].id>> : i \in 1..Len(se.dicoms)}
    \cup {<<"BOLD", se.bolds[i].id>> : i \in 1..Len(se.bolds)}

\* a row added since the last flush refers to the object cls, id: the
\* session holds such a row, and the row holds the object
Referred(cls, id) ==
    \E t \in Children :
        \E i \in (unit.flushed[t] + 1)..Len(session[t]) :
            IF t = "boldslices"
            THEN cls = "BOLD" /\ session[t][i].bold_id = id
            ELSE cls = "DICOM" /\ session[t][i].dicom_id = id

\* session.get(cls, id) looks in the identity map first, and flushes the
\* session and queries the database only when the object is not there.  The
\* map holds its objects by weak references: an object that a flush or a
\* query put there, and that no row added since refers to, may have been
\* collected, so a get of it flushes or does not
Flushes(cls, id) ==
    IF <<cls, id>> \notin identity THEN {TRUE}
    ELSE IF Referred(cls, id) THEN {FALSE}
    ELSE BOOLEAN

\* the identity map after session.get(cls, id) on the table t of what the
\* session sees
Loaded(flush, cls, id, t) ==
    IF flush
    THEN identity \cup Persistent(session)
         \cup (IF SessionGet(t, id) = NULL THEN {} ELSE {<<cls, id>>})
    ELSE identity

\* the unit of work after session.get
After(flush) == IF flush THEN Flush(unit, session) ELSE unit

\* the ids of the bids rows in the database file, flushed or committed, that
\* belong to the Scan id
Held(u, id) ==
    LET written == store.bids \o SubSeq(session.bids, 1, u.flushed.bids)
    IN  {written[i].id : i \in {k \in 1..Len(written) :
                                   /\ written[k].dicom_id = id
                                   /\ written[k].id \notin u.cleared}}

\* BIDS(dicom=d) sets d.session, the one-to-one side of BIDS.dicom, to the new
\* row.  The first time since a flush, the row d.session held before is one in
\* the database file (the one the session gave it last or, when d.session is
\* not loaded, one the database returns for it), and the next flush sets its
\* dicom_id to NULL; a row given since the last flush is not in the file yet
\* and keeps its dicom_id.  The result is the set of the units of work that
\* may follow: id is the Scan found, or NULL
Replaced(u, id) ==
    IF id = NULL \/ \E m \in u.replaced : m.dicom = id
    THEN {u}
    ELSE {[u EXCEPT !.replaced = @ \cup {[dicom |-> id, old |-> o]}] :
             o \in IF Held(u, id) = {} THEN {0} ELSE Held(u, id)}

\* an exception leaves init(): the with block closes the session
Abort(e) ==
    /\ store' = Rollback(store, session)
    /\ session' = EmptyStore
    /\ identity' = {}
    /\ unit' = EmptyUnit
    /\ pc' = "idle"
    /\ outcome' = Failed(e, Size(session))
    /\ UNCHANGED before

\* session.add(row)
Add(table, row) ==
    /\ session' = [session EXCEPT ![table] = Append(@, row)]
    /\ UNCHANGED <<store, pc, before, outcome>>

\* def init(...): create_all and Session(engine)
InitStart ==
    /\ pc = "idle"
    /\ pc' = Loops[1]
    /\ session' = EmptyStore
    /\ identity' = {}
    /\ unit' = EmptyUnit
    /\ before' = store
    /\ outcome' = Running
    /\ UNCHANGED store
    /\ ExtractUnchanged /\ PublishUnchanged

\* for f in products.glob("*/dicoms/*QC*zip"): session.add(DICOM.from_path(f))
AddDICOM(f) ==
    /\ pc = "dicoms"
    /\ LET r == FromPath(f)
       IN  IF r.kind = "raise"
           THEN Abort(r.error)
           ELSE Room /\ Add("dicoms", r.value) /\ UNCHANGED <<identity, unit>>
    /\ ExtractUnchanged /\ PublishUnchanged

\* for f in products.glob("*/bids/*QC*"): session.add(BIDS.from_path(f, session))
AddBIDS(f) ==
    /\ pc = "bids"
    /\ \E flush \in Flushes("DICOM", Join(f.stem)) :
           IF flush /\ FlushFails(store, session)
           THEN Abort("IntegrityError")
           ELSE LET row == BIDSFromPath(f, Seen, Len(Seen.bids) + 1)
                IN  /\ Room
                    /\ Add("bids", row)
                    /\ identity' = Loaded(flush, "DICOM", Join(f.stem),
                                          Seen.dicoms)
                    /\ unit' \in Replaced(After(flush), row.dicom_id)
    /\ ExtractUnchanged /\ PublishUnchanged

\* the three loops over the sidecar files *T1w.json, *bold.json and *dwi.json:
\* from_path reads the file before it asks the session for the Scan
AddScan(loop, table, f) ==
    /\ pc = loop
    /\ LET r == ScanFromPath(f, Seen)
       IN  IF r.kind = "raise" THEN Abort(r.error)
           ELSE \E flush \in Flushes("DICOM", Join(f.parent)) :
                    IF flush /\ FlushFails(store, session)
                    THEN Abort("IntegrityError")
                    ELSE /\ Room
                         /\ Add(table, r.value)
                         /\ identity' = Loaded(flush, "DICOM", Join(f.parent),
                                               Seen.dicoms)
                         /\ unit' = After(flush)
    /\ ExtractUnchanged /\ PublishUnchanged

AddT1w(f) == AddScan("t1w", "t1ws", f)
AddBOLD(f) == AddScan("bold", "bolds", f)
AddDWI(f) == AddScan("dwi", "dwis", f)

\* for row in pd.read_csv(qa).itertuples(): session.add(BOLDSlice(...))
AddBOLDSlice(f) ==
    /\ pc = "qa"
    /\ \E flush \in Flushes("BOLD", Join(f.parent)) :
           IF flush /\ FlushFails(store, session)
           THEN Abort("IntegrityError")
           ELSE /\ Room
                /\ Add("boldslices",
                       BOLDSliceRow(f, Seen, Len(Seen.boldslices) + 1))
                /\ identity' = Loaded(flush, "BOLD", Join(f.parent), Seen.bolds)
                /\ unit' = After(flush)
    /\ ExtractUnchanged /\ PublishUnchanged

\* a loop has taken all its files
NextLoop ==
    /\ pc \in {Loops[i] : i \in 1..(Len(Loops) - 1)}
    /\ pc' = Loops[LoopIndex(pc) + 1]
    /\ UNCHANGED <<store, session, identity, unit, before, outcome>>
    /\ ExtractUnchanged /\ PublishUnchanged

\* session.commit()
InitCommit ==
    /\ pc = Loops[Len(Loops)]
    /\ IF FlushFails(store, session)
       THEN Abort("IntegrityError")
       ELSE /\ store' = Commit(store, session, unit)
            /\ session' = EmptyStore
            /\ identity' = {}
            /\ unit' = EmptyUnit
            /\ pc' = "idle"
            /\ outcome' = Committed(Size(session))
            /\ before' = store'
    /\ ExtractUnchanged /\ PublishUnchanged

IngestInit ==
    /\ file = [stem |-> <<>>, ctime |-> Days[1], archive |-> NotZip]
    /\ siteRes = Pending
    /\ dateRes = Pending
    /\ scanRes = Pending
    /\ RestInit

Init == IngestInit

Next ==
    \/ InitStart
    \/ \E f \in DicomFiles : AddDICOM(f)
    \/ \E f \in BidsDirs : AddBIDS(f)
    \/ \E f \in T1wFiles : AddT1w(f)
    \/ \E f \in BoldFiles : AddBOLD(f)
    \/ \E f \in DwiFiles : AddDWI(f)
    \/ \E f \in QaRows : AddBOLDSlice(f)
    \/ NextLoop
    \/ InitCommit

Spec == Init /\ [][Next]_vars

----------------------------------------------------------------------------
(* confluence.py: Log.  A table (a DataFrame, or the table of the page) is *)
(* [columns, rows]: the names of its columns in their order, and its rows, *)
(* each a function from the names to the cells.                            *)

Range(q) == {q[i] : i \in 1..Len(q)}

\* a selection that is forgotten: the table as it is
NoProject(t, columns) == t

\* table[columns]
Project(t, columns) ==
    [columns |-> columns,
     rows |-> [i \in 1..Len(t.rows) |->
                  [c \in Range(columns) |-> t.rows[i][c]]]]

\* left.merge(right, on=[key], how="left"): every row of left, in its order,
\* once for each row of right with its key, and once with missing cells when
\* right has none; the columns of right follow those of left
RECURSIVE MergeRows(_, _, _, _)
MergeRows(rows, right, key, others) ==
    IF rows = <<>> THEN <<>>
    ELSE LET l == Head(rows)
             m == SelectSeq(right.rows, LAMBDA r : r[key] = l[key])
             out == IF m = <<>>
                    THEN <<[c \in others |-> NULL] @@ l>>
                    ELSE [i \in 1..Len(m) |-> [c \in others |-> m[i][c]] @@ l]
         IN  out \o MergeRows(Tail(rows), right, key, others)

\* a merge that pairs the rows by their place, not by their key
MergeByPlace(left, right, key) ==
    LET others == SelectSeq(right.columns, LAMBDA c : c # key)
    IN  [columns |-> left.columns \o others,
         rows |-> [i \in 1..Len(left.rows) |->
                      [c \in Range(others) |->
                          IF i <= Len(right.rows) THEN right.rows[i][c]
                          ELSE NULL] @@ left.rows[i]]]

Merge(left, right, key) ==
    LET others == SelectSeq(right.columns, LAMBDA c : c # key)
    IN  [columns |-> left.columns \o others,
         rows |-> MergeRows(left.rows, right, key, Range(others))]

\* .sort_values(by=["site", "date"]): missing values last
BySiteDate(q) ==
    [i \in 1..Len(q) |->
        Key2(Rank(SiteOrder, q[i].site), Rank(Days, q[i].date))]

SortValues(t) == [t EXCEPT !.rows = Sort(t.rows, BySiteDate(t.rows))]

\* .fillna("")
Fill(x) == IF x = NULL THEN "" ELSE x

Fillna(t) ==
    [t EXCEPT !.rows = [i \in 1..Len(t.rows) |->
                           [c \in DOMAIN t.rows[i] |-> Fill(t.rows[i][c])]]]

\* the list of columns merge_logs selects
MergeColumns ==
    <<"site", "date", "notes", "dicom", "bids", "bids_validation", "T1w",
      "b1000", "b2000", "bold", "id">>

\* Log.merge_logs(oldlog), self.oldlog being old
MergeLogs(old, oldlog) ==
    Fillna(SortValues(Project(Merge(oldlog, old, "id"), MergeColumns)))

\* pd.read_html: an empty cell of the page is a missing value
ReadHtml(t) ==
    [t EXCEPT !.rows = [i \in 1..Len(t.rows) |->
                           [c \in DOMAIN t.rows[i] |->
                               IF t.rows[i][c] = "" THEN NULL
                               ELSE t.rows[i][c]]]]

\* Log.from_token: table[0][["id", "notes"]]
FromToken(t) == Project(ReadHtml(t), <<"id", "notes">>)

\* x.dt.strftime("%y-%m-%d")
Strftime(d) ==
    CASE d = "2021-01-01" -> "21-01-01"
      [] d = "2021-01-02" -> "21-01-02"
      [] OTHER            -> d

\* Log.post_log, its first statement: the columns of dates of newlog are
\* formatted in place.  select_dtypes(include=["datetime"]) finds the columns
\* that hold dates alone: one in which fillna("") put a "" holds objects
FormatDates(t) ==
    LET dated(c) ==
            /\ c \in {"date", "dicom", "bids"}
            /\ \A i \in 1..Len(t.rows) : t.rows[i][c] \in Range(Days)
    IN  [t EXCEPT !.rows = [i \in 1..Len(t.rows) |->
                               [c \in DOMAIN t.rows[i] |->
                                   IF dated(c) THEN Strftime(t.rows[i][c])
                                   ELSE t.rows[i][c]]]]

\* newlog.to_html(index=False, na_rep=""): a date left in a column of objects
\* is written in full
ToHtml(t) ==
    [t EXCEPT !.rows = [i \in 1..Len(t.rows) |->
                           [c \in DOMAIN t.rows[i] |->
                               IF t.rows[i][c] \in Range(Days)
                               THEN t.rows[i][c] \o " 00:00:00"
                               ELSE t.rows[i][c]]]]

\* Log.post_log: the table that replaces the one of the page
PostLog(t) == ToHtml(FormatDates(t))

----------------------------------------------------------------------------
(* app.py: write_and_post, beside init and the readers of the page.  A run  *)
(* of write_and_post reads the database, then reads the page, then writes   *)
(* the page: three calls with nothing to hold the database or the page      *)
(* between them, so a commit of init() or a note rewritten on the page may  *)
(* fall between any two.                                                    *)

NS1File == [stem |-> Chars("NS1"), ctime |-> Days[2], archive |-> NotZip]
UC2File == [stem |-> Chars("uc2"), ctime |-> Days[1], archive |-> GoodZip]
BidsDir(id, v) == [stem |-> Chars(id), ctime |-> Days[2], validation |-> v]

\* the database before the first run of write_and_post: init() has written
\* it from the archive of one Scan and its valid conversion
FirstStore ==
    LET db == [EmptyStore EXCEPT !.dicoms = <<FromPath(UC2File).value>>]
    IN  [db EXCEPT !.bids = <<BIDSFromPath(BidsDir("uc2", "out"), db, 1)>>]

\* the files the later runs of init() find: the archive of another Scan and
\* two T1w sidecar files of the first
PublishDicoms == {NS1File}
PublishT1w == {Sidecar("t1", "{}", "uc2"), Sidecar("t2", "{}", "uc2")}

Notes == {"", "re-scan requested"}

\* the page before the first run: a table with the columns id and notes, with
\* no row or with the row of a Scan the database does not hold
FirstPages ==
    {[columns |-> <<"id", "notes">>, rows |-> <<>>],
     [columns |-> <<"id", "notes">>,
      rows |-> <<[id |-> "GONE99", notes |-> "x"]>>]}

\* oldlog = _export_table(table="log", url=url)
Export(post) ==
    /\ wp.at = "idle"
    /\ exported' \in LogViews(store)
    /\ wp' = [at |-> "exported", post |-> post]
    /\ UNCHANGED <<store, page, fetched, newlog, last>>
    /\ ExtractUnchanged /\ IngestUnchanged

\* log = confluence.Log.from_token(...); newlog = log.merge_logs(oldlog)
FetchAndMerge ==
    /\ wp.at = "exported"
    /\ fetched' = FromToken(page)
    /\ newlog' = MergeLogs(fetched', exported)
    /\ last' = [view |-> exported, old |-> fetched', result |-> newlog']
    /\ wp' = [wp EXCEPT !.at = "merged"]
    /\ UNCHANGED <<store, page, exported>>
    /\ ExtractUnchanged /\ IngestUnchanged

\* if post: log.post_log(newlog)
Post ==
    /\ wp.at = "merged"
    /\ wp.post
    /\ Len(newlog.rows) <= MaxPageRows
    /\ newlog' = FormatDates(newlog)
    /\ page' = ToHtml(newlog')
    /\ wp' = [wp EXCEPT !.at = "posted"]
    /\ UNCHANGED <<store, exported, fetched, last>>
    /\ ExtractUnchanged /\ IngestUnchanged

\* if out: newlog.to_csv(...); return out: the locals are no more
WriteOut ==
    /\ \/ wp.at = "posted"
       \/ wp.at = "merged" /\ ~wp.post
    /\ exported' = EmptyTable
    /\ fetched' = EmptyTable
    /\ newlog' = EmptyTable
    /\ wp' = NotPosting
    /\ UNCHANGED <<store, page, last>>
    /\ ExtractUnchanged /\ IngestUnchanged

\* a reader of the page rewrites the note of its row i
EditNotes(i, text) ==
    /\ i \in 1..Len(page.rows)
    /\ page.rows[i].notes # text
    /\ page' = [page EXCEPT !.rows[i].notes = text]
    /\ UNCHANGED <<store, exported, fetched, newlog, wp, last>>
    /\ ExtractUnchanged /\ IngestUnchanged

InitPublish ==
    /\ file = [stem |-> <<>>, ctime |-> Days[1], archive |-> NotZip]
    /\ siteRes = Pending
    /\ dateRes = Pending
    /\ scanRes = Pending
    /\ store = FirstStore
    /\ session = EmptyStore
    /\ identity = {}
    /\ unit = EmptyUnit
    /\ pc = "idle"
    /\ before = FirstStore
    /\ outcome = Committed(Size(FirstStore))
    /\ page \in FirstPages
    /\ exported = EmptyTable
    /\ fetched = EmptyTable
    /\ newlog = EmptyTable
    /\ wp = NotPosting
    /\ last = NoMerge

NextPublish ==
    \/ InitStart
    \/ \E f \in PublishDicoms : AddDICOM(f)
    \/ \E f \in PublishT1w : AddT1w(f)
    \/ NextLoop
    \/ InitCommit
    \/ \E post \in BOOLEAN : Export(post)
    \/ FetchAndMerge
    \/ Post
    \/ WriteOut
    \/ \E i \in 1..MaxPageRows, text \in Notes : EditNotes(i, text)

SpecPublish == InitPublish /\ [][NextPublish]_vars

----------------------------------------------------------------------------
(* Properties of the view log *)

RowsOf(log, id) == {i \in 1..Len(log) : log[i].id = id}

Has(t, id) == \E i \in 1..Len(t) : t[i].dicom_id = id

\* C1: the view log holds exactly one row for every Scan in the store: every
\* Scan id appears, and none appears in two rows.
C1_OneRowPerScan ==
    \A log \in LogViews(store) :
        \A i \in 1..Len(store.dicoms) :
            Cardinality(RowsOf(log.rows, store.dicoms[i].id)) = 1

\* C2: in every row of the view log whose bids_validation is "" or "N", the
\* four columns T1w, b1000, b2000 and bold are "".
C2_ForcedBlank ==
    \A log \in LogViews(store) :
        \A i \in 1..Len(log.rows) :
            log.rows[i].bids_validation \in {"", "N"} =>
                /\ log.rows[i].T1w = ""
                /\ log.rows[i].b1000 = ""
                /\ log.rows[i].b2000 = ""
                /\ log.rows[i].bold = ""

\* a row of a Scan whose conversion is not valid although one of its
\* derivatives is in the store
C2_Witness ==
    \E log \in LogViews(store) :
        \E i \in 1..Len(log.rows) :
            /\ log.rows[i].bids_validation = "N"
            /\ Has(store.bolds, log.rows[i].id)
            /\ Has(store.t1ws, log.rows[i].id)

YesNo(b) == IF b THEN "Y" ELSE "N"

\* C3: in every row of the view log whose bids_validation is "Y", each of the
\* columns T1w, bold, b1000 and b2000 is "Y" when the Scan has a row in t1ws,
\* bolds, the view b1000, the view b2000, and "N" when it has none.
C3_PresenceWhenValid ==
    \A log \in LogViews(store) :
        \A i \in 1..Len(log.rows) :
            log.rows[i].bids_validation = "Y" =>
                /\ log.rows[i].T1w = YesNo(Has(store.t1ws, log.rows[i].id))
                /\ log.rows[i].bold = YesNo(Has(store.bolds, log.rows[i].id))
                /\ log.rows[i].b1000
                       = YesNo(Has(B1000View(store), log.rows[i].id))
                /\ log.rows[i].b2000
                       = YesNo(Has(B2000View(store), log.rows[i].id))

\* a valid Scan with a T1w and a b2000 row and neither a BOLD nor a b1000 row
C3_Witness ==
    \E log \in LogViews(store) :
        \E i \in 1..Len(log.rows) :
            /\ log.rows[i].bids_validation = "Y"
            /\ log.rows[i].T1w = "Y" /\ log.rows[i].bold = "N"
            /\ log.rows[i].b1000 = "N" /\ log.rows[i].b2000 = "Y"
            /\ \E k \in 1..Len(store.dwis) :
                   store.dwis[k].dicom_id = log.rows[i].id

----------------------------------------------------------------------------
(* Properties of init *)

\* C10: when an exception ends a run of init(), the database holds exactly
\* the rows it held when the run started, whatever the run had added.
C10_FailedPassLeavesStore == outcome.state = "failed" => store = before

\* a run over a database that already held rows, ended by an IntegrityError
\* after it had added rows of its own
C10_Witness ==
    /\ outcome.state = "failed"
    /\ outcome.error = "IntegrityError"
    /\ outcome.added > 0
    /\ Size(before) > 0

----------------------------------------------------------------------------
(* Properties of merge_logs *)

Merged == last.result.columns # <<>>

IdsOf(t) == {t.rows[i].id : i \in 1..Len(t.rows)}

\* C4: the rows merge_logs returns correspond one to one to the rows of the
\* view it was given: every id has as many rows in the result as in the view,
\* an id the view does not hold having none.
C4_RowsOneToOne ==
    Merged =>
        \A id \in IdsOf(last.result) \cup IdsOf(last.view) \cup IdsOf(last.old) :
            Cardinality(RowsOf(last.result.rows, id))
                = Cardinality(RowsOf(last.view.rows, id))

\* row r of the result has the computed columns of row n of the view
SameComputed(r, n) == \A c \in Range(LogColumns) : r[c] = Fill(n[c])

\* C5: every row merge_logs returns has the computed columns of a row of the
\* view with its id (a missing cell being ""); when the table read from the
\* page has rows with that id, its notes are those of such a row, and each
\* such row gives one; when it has none, its notes are "".  Every id of the
\* view has a row.
C5_NotesAndColumns ==
    Merged =>
        /\ \A i \in 1..Len(last.result.rows) :
               LET r == last.result.rows[i]
                   old == {k \in 1..Len(last.old.rows) :
                              last.old.rows[k].id = r.id}
               IN  /\ \E j \in 1..Len(last.view.rows) :
                          /\ last.view.rows[j].id = r.id
                          /\ SameComputed(r, last.view.rows[j])
                   /\ IF old = {} THEN r.notes = ""
                      ELSE \E k \in old : r.notes = Fill(last.old.rows[k].notes)
        /\ \A j \in 1..Len(last.view.rows), k \in 1..Len(last.old.rows) :
               last.view.rows[j].id = last.old.rows[k].id =>
                   \E i \in 1..Len(last.result.rows) :
                       /\ SameComputed(last.result.rows[i], last.view.rows[j])
                       /\ last.result.rows[i].notes
                              = Fill(last.old.rows[k].notes)
        /\ IdsOf(last.view) \subseteq IdsOf(last.result)

\* merge_logs has just returned: the note of a Scan is kept although its
\* computed columns are no longer those on the page, beside a Scan the page
\* does not know
C5_Witness ==
    /\ wp.at = "merged"
    /\ \E i \in 1..Len(last.result.rows), k \in 1..Len(page.rows) :
           /\ last.result.rows[i].id = page.rows[k].id
           /\ last.result.rows[i].notes = "re-scan requested"
           /\ "T1w" \in DOMAIN page.rows[k]
           /\ last.result.rows[i].T1w # page.rows[k].T1w
    /\ \E i \in 1..Len(last.result.rows) :
           /\ last.result.rows[i].id \notin IdsOf(last.old)
           /\ last.result.rows[i].notes = ""

\* C6: when merge_logs is given the view it was given the last time, and the
\* columns id and notes of the page on which its last result was posted, it
\* returns the table it returned the last time.
C6_Idempotent ==
    [][(/\ Merged
        /\ last'.view = last.view
        /\ last'.old = FromToken(PostLog(last.result)))
           => last'.result = last.result]_vars

\* C7 as stated: the columns of the table merge_logs returns are those of the
\* view in their order, with notes appended as the last.
C7_NotesLast == Merged => last.result.columns = Append(LogColumns, "notes")

\* C7: the columns of the table merge_logs returns are site, date, notes,
\* dicom, bids, bids_validation, T1w, b1000, b2000, bold, id, in this order:
\* notes is the third.
C7_ColumnOrder ==
    Merged =>
        last.result.columns =
            <<"site", "date", "notes", "dicom", "bids", "bids_validation",
              "T1w", "b1000", "b2000", "bold", "id">>

\* a table of several rows, with a note among them
C7_Witness ==
    /\ Merged
    /\ Len(last.result.rows) > 1
    /\ \E i \in 1..Len(last.result.rows) : last.result.rows[i].notes # ""

----------------------------------------------------------------------------
(* Properties of the extraction functions *)

\* C8: _extract_site returns one of the site codes, or fails with
\* UnrecognizedSiteError; it fails with no other error.
C8_SiteOrUnrecognized ==
    siteRes.kind # "pending" =>
        \/ siteRes.kind = "return" /\ siteRes.value \in SiteCodes
        \/ siteRes.kind = "raise" /\ siteRes.error = "UnrecognizedSiteError"

\* the three cases of C9
NotAnArchive == ~file.archive.zip
NoSuitableEntry ==
    file.archive.zip /\ FirstSuitable(file.archive.filelist) = 0
NoDateField ==
    /\ file.archive.zip
    /\ FirstSuitable(file.archive.filelist) # 0
    /\ file.archive.filelist[FirstSuitable(file.archive.filelist)]
           .AcquisitionDate = NULL

\* C9: when the file is no archive, or the archive has no entry that is
\* neither a directory nor a DICOMDIR, or the entry read has no
\* AcquisitionDate, _extract_phantom_date returns None and raises nothing,
\* and from_path, for a stem that names a site, returns a Scan with its day
\* and no acquisition_day.
C9_AbsentNotError ==
    (NotAnArchive \/ NoSuitableEntry \/ NoDateField) =>
        /\ dateRes.kind # "pending" =>
               dateRes.kind = "return" /\ dateRes.value = NULL
        /\ (scanRes.kind # "pending" /\ Search(file.stem) # 0) =>
               /\ scanRes.kind = "return"
               /\ scanRes.value.day # NULL
               /\ scanRes.value.acquisition_day = NULL

====
